---- MODULE Spec2Model ----
(***************************************************************************)
(* simplecache: memoized() method decorator over per-instance registries   *)
(* (_cachedict) of cachetools caches.  One Python thread: the call stack    *)
(* is a sequence of wrapper frames, only the top frame moves, and a method *)
(* body may make nested calls of memoized methods.                         *)
(***************************************************************************)
EXTENDS Integers, Sequences, FiniteSets, TLC

VARIABLES
    registry,   \* instance -> NoRegistry | [method name -> cache id]   (self._cachedict)
    heap,       \* cache id -> cache object (the objects cachetype(...) constructed)
    stack,      \* call stack of wrapper frames, top frame last
    last,       \* summary of the most recently completed call (ghost)
    calls,      \* number of calls started so far (ghost, bounds the run)
    origin      \* cache id -> resident key -> the call that stored the entry (ghost)

vars == <<registry, heap, stack, last, calls, origin>>

(* ------------------------------ bounds -------------------------------- *)
MaxCalls == 3
MaxDepth == 2

(* ------------------------------ inputs -------------------------------- *)
\* o1, o2 inherit ArrayMethodCacheMixin and run its __init__; o3's class
\* overrides __init__ without delegating, so o3 never gets a _cachedict.
Instances == {"o1", "o2", "o3"}
Initialised == {"o1", "o2"}

NoKey == <<-1>>
NoCache == <<>>

\* Return values of the underlying methods; under a getsizeof-sized cache the
\* size of value v is v.  The remaining arguments (*args, **kwargs) of a call.
Values == {1, 3}
Rests == {"r1", "r2"}

\* numpy arrays: ident is the object identity, ndim/rows the shape and the
\* int8 elements in C order.  x1 and x2 are separately constructed arrays of
\* equal content; n stands for an argument without a tostring() attribute.
Arrays ==
    { [ident |-> "x1", isarray |-> TRUE,  ndim |-> 1, rows |-> <<<<1, 2>>>>],
      [ident |-> "x2", isarray |-> TRUE,  ndim |-> 1, rows |-> <<<<1, 2>>>>],
      [ident |-> "y",  isarray |-> TRUE,  ndim |-> 1, rows |-> <<<<-1>>>>],
      [ident |-> "u",  isarray |-> TRUE,  ndim |-> 1, rows |-> <<<<7>>>>],
      [ident |-> "n",  isarray |-> FALSE, ndim |-> 0, rows |-> <<>>] }

\* Element-wise identical contents (same shape, same elements), whatever the
\* object identity.
ContentEqual(a, b) ==
    /\ a.isarray /\ b.isarray
    /\ a.ndim = b.ndim
    /\ a.rows = b.rows

\* The decorated methods of the class and the arguments of their memoized()
\* call: frob and spam as in the module doctest, frobBase a second decorated
\* method that carries the name "frob" (the method an override replaces),
\* plain a method decorated with cachetype=None.
Wrappers == {"frob", "spam", "frobBase", "plain"}

Config ==
    [w \in Wrappers |->
        CASE w = "frob"     -> [mname |-> "frob",  cachetype |-> "LRU",  cachesize |-> 2, sized |-> FALSE]
          [] w = "spam"     -> [mname |-> "spam",  cachetype |-> "LFU",  cachesize |-> 2, sized |-> TRUE]
          [] w = "frobBase" -> [mname |-> "frob",  cachetype |-> "LRU",  cachesize |-> 1, sized |-> FALSE]
          [] w = "plain"    -> [mname |-> "plain", cachetype |-> "None", cachesize |-> 2, sized |-> FALSE]]

Arr(idents) == {a \in Arrays : a.ident \in idents}

MethodNames == {Config[w].mname : w \in Wrappers}


(* ------------------- KeyFunction: keyfcn_default ---------------------- *)
RECURSIVE Flatten(_)
Flatten(rows) ==
    IF rows = <<>> THEN <<>> ELSE Head(rows) \o Flatten(Tail(rows))

\* One byte per int8 element (two's complement).
ByteOf(e) == e % 256

\* A key function that keys on the identity of the array object.
keyfcn_identity(array) ==
    <<CASE array.ident = "x1" -> 301 [] array.ident = "x2" -> 302
        [] array.ident = "y" -> 303 [] array.ident = "u" -> 304 [] OTHER -> 305>>

\* array.tostring(): the raw bytes of the elements in C order; the shape and
\* the object identity are not part of the result.
keyfcn_default(array) ==
    [i \in 1..Len(Flatten(array.rows)) |-> ByteOf(Flatten(array.rows)[i])]

\* A wrapper that falls back to a key when the key function cannot.
KeyFailsNever(arg) == FALSE

\* keyfcn(arrayarg) raises (AttributeError) on an argument without tostring().
KeyFails(arg) == ~arg.isarray

\* A key derived from the remaining arguments as well.
ArgKeyWithRest(arrayarg, rest) ==
    keyfcn_default(arrayarg) \o <<IF rest = "r1" THEN 1 ELSE 2>>

\* argkey = keyfcn(arrayarg): the remaining arguments are not passed to it.
ArgKey(arrayarg, rest) == keyfcn_default(arrayarg)

Keys == {keyfcn_default(a) : a \in {x \in Arrays : x.isarray}}

(* ---------- EvictionPolicy: cachetools LRUCache / LFUCache ------------ *)
\* A cache object: data is the resident key -> value mapping, order the
\* recency order of an LRU cache (least recently used first), freq the use
\* counts of an LFU cache.
EmptyMap == [k \in {} |-> 0]

NewCache(kind, maxsize, sized) ==
    [kind |-> kind, maxsize |-> maxsize, sized |-> sized,
     data |-> EmptyMap, order |-> <<>>, freq |-> EmptyMap]

Resident(c, k) == k \in DOMAIN c.data

SizeOf(c, v) == IF c.sized THEN v ELSE 1

RECURSIVE SumSizes(_, _)
SumSizes(c, ks) ==
    IF ks = {} THEN 0
    ELSE LET k == CHOOSE x \in ks : TRUE
         IN  SizeOf(c, c.data[k]) + SumSizes(c, ks \ {k})

CurrSize(c) == SumSizes(c, DOMAIN c.data)

Without(seq, k) == SelectSeq(seq, LAMBDA x : x # k)

Restrict(f, S) == [x \in S |-> f[x]]

\* Recording a use of key k: most recently used (LRU), one more use (LFU).
Touch(c, k) ==
    IF c.kind = "LRU"
    THEN [c EXCEPT !.order = Without(c.order, k) \o <<k>>]
    ELSE [c EXCEPT !.freq = [x \in DOMAIN c.freq \cup {k} |->
                                IF x = k
                                THEN (IF k \in DOMAIN c.freq THEN c.freq[k] ELSE 0) + 1
                                ELSE c.freq[x]]]

\* cache[key] on a resident key: the value, and the new state of the cache.
CacheGet(c, k) == [value |-> c.data[k], cache |-> Touch(c, k)]

\* The keys popitem() may remove: the least recently used one, or, for LFU,
\* a least frequently used one (ties are broken by the counter's iteration
\* order, which the program does not control).
Victims(c) ==
    IF c.kind = "LRU"
    THEN IF c.order = <<>> THEN {} ELSE {Head(c.order)}
    ELSE {k \in DOMAIN c.data : \A x \in DOMAIN c.data : c.freq[k] <= c.freq[x]}

Delete(c, k) ==
    [c EXCEPT !.data = Restrict(c.data, DOMAIN c.data \ {k}),
              !.order = Without(c.order, k),
              !.freq = Restrict(c.freq, DOMAIN c.freq \ {k})]

\* while currsize + size > maxsize: popitem()
RECURSIVE EvictFor(_, _)
EvictFor(c, size) ==
    IF CurrSize(c) + size > c.maxsize /\ Victims(c) # {}
    THEN UNION {EvictFor(Delete(c, k), size) : k \in Victims(c)}
    ELSE {c}

Rejects(c, v) == SizeOf(c, v) > c.maxsize

\* cache[key] = value when the value is not rejected: the possible new
\* states of the cache.
CacheSet(c, k, v) ==
    LET size == SizeOf(c, v)
        room == IF ~Resident(c, k) \/ SizeOf(c, c.data[k]) < size
                THEN EvictFor(c, size) ELSE {c}
    IN  { Touch([d EXCEPT !.data = [x \in DOMAIN d.data \cup {k} |->
                                       IF x = k THEN v ELSE d.data[x]]], k)
          : d \in room }

(* ------------------- ArrayMethodCacheMixin.__init__ ------------------- *)
\* A constructor that enters a cache for every memoized method.
MixinInitEager == [present |-> TRUE, dict |-> [m \in MethodNames |-> <<"o1", m, 1>>]]

\* self._cachedict = {}
MixinInit == [present |-> TRUE, dict |-> EmptyMap]

\* An instance whose class never ran the mix-in's __init__.
NoRegistry == [present |-> FALSE, dict |-> EmptyMap]

(* --------------------------- memoized() ------------------------------- *)
\* A factory without the cachetype-is-None case.
IsIdentityNever(w) == FALSE

\* if cachetype is None: return lambda x: x
IsIdentity(w) == Config[w].cachetype = "None"

\* One registry slot for every method.
RegistryKeyShared(w) == "cache"

\* mname = arraymethod.__name__
RegistryKey(w) == Config[w].mname

\* A registry held by the class, shared by its instances.
RegistryOfClass(o) == "o1"

\* self._cachedict: the registry the wrapper reads is the one of the
\* instance the method is called on.
RegistryOf(o) == o

\* A wrapper that treats a missing registry like a missing entry.
RegistryMissingNever(reg) == FALSE

\* self._cachedict raises AttributeError when the instance has no registry.
RegistryMissing(reg) == ~reg.present

\* A lookup that constructs a cache on every call.
NeedsCreateAlways(dict, mname) == TRUE

\* except KeyError: the method name has no entry yet.
NeedsCreate(dict, mname) == mname \notin DOMAIN dict

\* An off-by-one capacity.
CacheSizeArgOff(w) == Config[w].cachesize + 1

\* cachetype(cachesize, *cargs, **ckwargs)
CacheSizeArg(w) == Config[w].cachesize

Construct(w) == NewCache(Config[w].cachetype, CacheSizeArg(w), Config[w].sized)

\* A probe that never finds the key.
ProbeNever(c, k) == FALSE

\* try: return cache[argkey] / except KeyError
ProbeHits(c, k) == Resident(c, k)

\* A wrapper that lets the ValueError of a rejected store escape.
SwallowsNever == FALSE

\* except ValueError: pass
SwallowsRejection == TRUE

(* ------------------------------ frames -------------------------------- *)
Top == stack[Len(stack)]
Depth == Len(stack)

NewFrame(o, w, arg, rest) ==
    [o |-> o, w |-> w, arg |-> arg, rest |-> rest,
     pc |-> IF IsIdentity(w) THEN "body" ELSE "lookup",
     cache |-> NoCache, key |-> NoKey, retval |-> 0,
     invoked |-> IF IsIdentity(w) THEN 1 ELSE 0,
     shadowed |-> FALSE, created |-> FALSE, dirtied |-> FALSE]

NoCall ==
    [o |-> "o1", w |-> "frob", arg |-> CHOOSE a \in Arrays : a.ident = "n",
     rest |-> "r1", depth |-> 0, outcome |-> "none", error |-> "", value |-> 0,
     invoked |-> 0, store |-> "none", shadowed |-> FALSE,
     cache |-> NoCache, key |-> NoKey, evicted |-> FALSE,
     created |-> FALSE, dirtied |-> FALSE]

\* The summary of the call of frame f as it leaves the stack.
Summary(f, outcome, error, value, store, evicted) ==
    [o |-> f.o, w |-> f.w, arg |-> f.arg, rest |-> f.rest, depth |-> Depth,
     outcome |-> outcome, error |-> error, value |-> value,
     invoked |-> f.invoked, store |-> store, shadowed |-> f.shadowed,
     cache |-> f.cache, key |-> f.key, evicted |-> evicted,
     created |-> f.created, dirtied |-> f.dirtied]

Pop == SubSeq(stack, 1, Len(stack) - 1)

SetTop(f) == [stack EXCEPT ![Len(stack)] = f]

Generation(o, mname) ==
    Cardinality({id \in DOMAIN heap : id[1] = o /\ id[2] = mname})

Extend(f, x, y) == [z \in DOMAIN f \cup {x} |-> IF z = x THEN y ELSE f[z]]

Init ==
    /\ registry = [o \in Instances |-> IF o \in Initialised THEN MixinInit ELSE NoRegistry]
    /\ heap = EmptyMap
    /\ stack = <<>>
    /\ last = NoCall
    /\ calls = 0
    /\ origin = EmptyMap

(* ------------------------------ actions ------------------------------- *)
\* o.m(arg): a call from the program (empty stack) or from inside the body
\* of a method that is being computed.
Call(o, w, arg, rest) ==
    /\ calls < MaxCalls
    /\ Depth < MaxDepth
    /\ IF stack = <<>> THEN TRUE ELSE Top.pc = "body"
    /\ stack' = Append(stack, NewFrame(o, w, arg, rest))
    /\ calls' = calls + 1
    /\ UNCHANGED <<registry, heap, last, origin>>

\* try: cache = self._cachedict[mname] / except KeyError: create and register
RegistryLookup ==
    /\ stack # <<>> /\ Top.pc = "lookup"
    /\ LET f == Top
           r == RegistryOf(f.o)
           mname == RegistryKey(f.w)
       IN  IF RegistryMissing(registry[r])
           THEN \* AttributeError: not a KeyError, it propagates
                /\ stack' = Pop
                /\ last' = Summary(f, "raised", "registry", 0, "none", FALSE)
                /\ UNCHANGED <<registry, heap, origin>>
           ELSE IF ~NeedsCreate(registry[r].dict, mname)
           THEN /\ stack' = SetTop([f EXCEPT !.cache = registry[r].dict[mname], !.pc = "key"])
                /\ UNCHANGED <<registry, heap, last, origin>>
           ELSE IF Config[f.w].cachetype = "None"
           THEN \* None(cachesize): TypeError
                /\ stack' = Pop
                /\ last' = Summary(f, "raised", "cachetype", 0, "none", FALSE)
                /\ UNCHANGED <<registry, heap, origin>>
           ELSE LET id == <<r, mname, Generation(r, mname) + 1>>
                IN  /\ heap' = Extend(heap, id, Construct(f.w))
                    /\ origin' = Extend(origin, id, EmptyMap)
                    /\ registry' = [registry EXCEPT ![r].dict = Extend(@, mname, id)]
                    /\ stack' = SetTop([f EXCEPT !.cache = id, !.pc = "key",
                                                  !.created = TRUE])
                    /\ UNCHANGED last
    /\ UNCHANGED calls

\* argkey = keyfcn(arrayarg)
KeyDerivation ==
    /\ stack # <<>> /\ Top.pc = "key"
    /\ LET f == Top
       IN  IF KeyFails(f.arg)
           THEN /\ stack' = Pop
                /\ last' = Summary(f, "raised", "key", 0, "none", FALSE)
           ELSE /\ stack' = SetTop([f EXCEPT !.key = ArgKey(f.arg, f.rest), !.pc = "probe"])
                /\ UNCHANGED last
    /\ UNCHANGED <<registry, heap, calls, origin>>

\* A wrapper that takes the entry out of the cache when it hits.
ProbePops(c, k) == [value |-> c.data[k], cache |-> Delete(c, k)]

\* cache[argkey] in the probe: a lookup.
ProbeResult(c, k) == CacheGet(c, k)

\* try: return cache[argkey] / except KeyError: pass, then the underlying
\* method is entered.
CacheProbe ==
    /\ stack # <<>> /\ Top.pc = "probe"
    /\ LET f == Top
           c == heap[f.cache]
       IN  IF ProbeHits(c, f.key)
           THEN /\ Resident(c, f.key)
                /\ heap' = [heap EXCEPT ![f.cache] = ProbeResult(c, f.key).cache]
                /\ stack' = Pop
                /\ last' = Summary(f, "returned", "", ProbeResult(c, f.key).value, "none", FALSE)
           ELSE /\ stack' = SetTop([f EXCEPT !.pc = "body", !.invoked = 1])
                /\ UNCHANGED <<heap, last>>
    /\ UNCHANGED <<registry, calls, origin>>

\* retval = arraymethod(self, arrayarg, *args, **kwargs) returns v
BodyReturn(v) ==
    /\ stack # <<>> /\ Top.pc = "body"
    /\ LET f == Top
       IN  IF IsIdentity(f.w)
           THEN /\ stack' = Pop
                /\ last' = Summary(f, "returned", "", v, "none", FALSE)
           ELSE /\ stack' = SetTop([f EXCEPT !.retval = v, !.pc = "store"])
                /\ UNCHANGED last
    /\ UNCHANGED <<registry, heap, calls, origin>>

\* A wrapper that stores a placeholder result when the method raises.
BodyRaiseStores ==
    /\ stack # <<>> /\ Top.pc = "body"
    /\ stack' = Pop
    /\ last' = Summary(Top, "raised", "body", 0, "none", FALSE)
    /\ IF Top.cache = NoCache
       THEN UNCHANGED heap
       ELSE \E c2 \in CacheSet(heap[Top.cache], Top.key, 1) :
                heap' = [heap EXCEPT ![Top.cache] = c2]
    /\ UNCHANGED <<registry, calls, origin>>

\* A wrapper that withdraws the method's registry entry when the method raises.
BodyRaiseForgets ==
    /\ stack # <<>> /\ Top.pc = "body"
    /\ stack' = Pop
    /\ last' = Summary(Top, "raised", "body", 0, "none", FALSE)
    /\ IF Top.cache = NoCache
       THEN UNCHANGED registry
       ELSE registry' = [registry EXCEPT ![RegistryOf(Top.o)].dict =
                            Restrict(@, DOMAIN @ \ {RegistryKey(Top.w)})]
    /\ UNCHANGED <<heap, calls, origin>>

\* the underlying method raises
BodyRaise ==
    /\ stack # <<>> /\ Top.pc = "body"
    /\ stack' = Pop
    /\ last' = Summary(Top, "raised", "body", 0, "none", FALSE)
    /\ UNCHANGED <<registry, heap, calls, origin>>

\* The enclosing calls after a nested call stored key k in cache id: those
\* running on the same cache are marked dirtied, those running for the same
\* key of it shadowed.
Shadow(id, k) ==
    [i \in 1..(Len(stack) - 1) |->
        IF stack[i].cache = id
        THEN [stack[i] EXCEPT !.dirtied = TRUE,
                              !.shadowed = @ \/ stack[i].key = k]
        ELSE stack[i]]

\* The call that stores an entry, as recorded with the entry.
Origin(f) == [o |-> f.o, w |-> f.w, key |-> ArgKey(f.arg, f.rest),
              rest |-> f.rest, value |-> f.retval]

\* A wrapper that stores a placeholder instead of the result.
StoredValueFixed(f) == 1

\* cache[argkey] = retval
StoredValue(f) == f.retval

\* cache[argkey] = retval taken by the policy, and return retval.
StoreAccepted(f, c) ==
    \E c2 \in CacheSet(c, f.key, StoredValue(f)) :
        /\ heap' = [heap EXCEPT ![f.cache] = c2]
        /\ origin' = [origin EXCEPT ![f.cache] =
                         Restrict(Extend(@, f.key, Origin(f)), DOMAIN c2.data)]
        /\ stack' = Shadow(f.cache, f.key)
        /\ last' = Summary(f, "returned", "", f.retval, "accepted",
                            DOMAIN c.data \ DOMAIN c2.data # {})

\* A wrapper that computes again when the policy rejects the value.
StoreAttemptRetry ==
    /\ stack # <<>> /\ Top.pc = "store"
    /\ LET f == Top
           c == heap[f.cache]
       IN  IF Rejects(c, StoredValue(f))
           THEN /\ stack' = SetTop([f EXCEPT !.pc = "body"])
                /\ UNCHANGED <<heap, origin, last>>
           ELSE StoreAccepted(f, c)
    /\ UNCHANGED <<registry, calls>>

\* try: cache[argkey] = retval / except ValueError: pass; return retval
StoreAttempt ==
    /\ stack # <<>> /\ Top.pc = "store"
    /\ LET f == Top
           c == heap[f.cache]
       IN  IF Rejects(c, StoredValue(f))
           THEN IF SwallowsRejection
                THEN /\ stack' = Pop
                     /\ last' = Summary(f, "returned", "", f.retval, "rejected", FALSE)
                     /\ UNCHANGED <<heap, origin>>
                ELSE /\ stack' = Pop
                     /\ last' = Summary(f, "raised", "store", 0, "rejected", FALSE)
                     /\ UNCHANGED <<heap, origin>>
           ELSE StoreAccepted(f, c)
    /\ UNCHANGED <<registry, calls>>

\* The steps of the running call.
Step ==
    \/ RegistryLookup
    \/ KeyDerivation
    \/ CacheProbe
    \/ \E v \in Values : BodyReturn(v)
    \/ BodyRaise
    \/ StoreAttempt

\* A program that calls the two memoized methods of the doctest class on one
\* instance, with every argument.
CoreMethods == {"frob", "spam"}

Next ==
    \/ \E w \in CoreMethods, arg \in Arrays : Call("o1", w, arg, "r1")
    \/ Step

Spec == Init /\ [][Next]_vars

\* A program that calls a memoized method of capacity 1 and a method
\* decorated with cachetype=None on every instance, the one without a
\* registry included.
InstanceMethods == {"frobBase", "plain"}

NextInstances ==
    \/ \E o \in Instances, w \in InstanceMethods, arg \in Arr({"x1", "y"}) :
            Call(o, w, arg, "r1")
    \/ Step

SpecInstances == Init /\ [][NextInstances]_vars

\* Calls of one memoized method on one instance that differ in their remaining
\* arguments as well as in the array.
RestArrays == Arr({"x1", "x2", "y"})

NextRest ==
    \/ \E arg \in RestArrays, rest \in Rests : Call("o1", "frob", arg, rest)
    \/ Step

SpecRest == Init /\ [][NextRest]_vars

\* Calls, on one instance, of a memoized method and of the memoized method of
\* the same name that it overrides (reached through super()), each decorated
\* with its own cachesize.
OverrideMethods == {"frob", "frobBase"}

NextOverride ==
    \/ \E w \in OverrideMethods, arg \in Arr({"x1", "y"}) : Call("o1", w, arg, "r1")
    \/ Step

SpecOverride == Init /\ [][NextOverride]_vars

\* A fixed sequence of top-level calls of frob (LRU, cachesize 2) on one
\* instance: frob(A), frob(A), frob(B), frob(C), frob(A), the method returning
\* every time. Each call passes some array with the contents named.
Script == <<"x1", "x1", "y", "u", "x1">>

ArrayNamed(ident) == CHOOSE a \in Arrays : a.ident = ident

ScriptCall ==
    /\ stack = <<>>
    /\ calls < Len(Script)
    /\ \E arg \in Arrays :
          /\ ContentEqual(arg, ArrayNamed(Script[calls + 1]))
          /\ stack' = <<NewFrame("o1", "frob", arg, "r1")>>
    /\ calls' = calls + 1
    /\ UNCHANGED <<registry, heap, last, origin>>

NextScript ==
    \/ ScriptCall
    \/ RegistryLookup
    \/ KeyDerivation
    \/ CacheProbe
    \/ \E v \in Values : BodyReturn(v)
    \/ StoreAttempt

SpecScript == Init /\ [][NextScript]_vars

(* ------------------------------ claims -------------------------------- *)
Memoized(w) == Config[w].cachetype # "None"

\* The running call is made by the program (not nested) right after the
\* program's call summarised in last returned, on the same instance and
\* method, with a separately constructed array of equal content.
SecondOfPair ==
    /\ Len(stack) = 1
    /\ Memoized(stack[1].w)
    /\ last.outcome = "returned" /\ last.depth = 1
    /\ last.o = stack[1].o /\ last.w = stack[1].w
    /\ ContentEqual(last.arg, stack[1].arg)
    /\ last.arg.ident # stack[1].arg.ident

\* Over the two calls the underlying method is entered at most once, and the
\* second call returns the value the first returned.
PairIdempotent ==
    /\ Len(stack') >= 1 => last.invoked + stack'[1].invoked <= 1
    /\ stack' = <<>> =>
          /\ last'.outcome = "returned"
          /\ last'.value = last.value
          /\ last.invoked + last'.invoked <= 1

\* C1 as stated: for every instance with a registry, two consecutive calls
\* of a memoized method with content-equal, separately constructed arguments
\* invoke the underlying method at most once in total and the second call
\* returns the value of the first.
C1_Original == [][SecondOfPair => PairIdempotent]_vars

\* C1 amended: the same, provided the policy did not reject the store of the
\* first call (the first call hit, or its store was accepted).
C1_Idempotent == [][SecondOfPair /\ last.store # "rejected" => PairIdempotent]_vars

\* The second call of such a pair has returned from a hit: both calls are
\* summarised, the first stored, the second did not invoke the method.
C1_Witness ==
    /\ stack = <<>>
    /\ calls = 2
    /\ last.outcome = "returned" /\ last.invoked = 0 /\ last.store = "none"
    /\ last.arg.ident = "x2" /\ last.w = "frob" /\ last.o = "o1"
    /\ last.key \in DOMAIN heap[<<"o1", "frob", 1>>].data
    /\ heap[<<"o1", "frob", 1>>].order = <<last.key>>

\* C2: when the probed key is resident, the call returns the resident value
\* in that step and the underlying method is not invoked by the call.
C2_CacheHit ==
    [][(stack # <<>> /\ Top.pc = "probe" /\ Resident(heap[Top.cache], Top.key))
        => /\ stack' = Pop
           /\ last'.outcome = "returned"
           /\ last'.value = heap[Top.cache].data[Top.key]
           /\ last'.invoked = 0
           /\ last'.store = "none"]_vars

\* A nested call has just returned from a hit.
C2_Witness ==
    /\ Len(stack) = 1
    /\ last.depth = 2 /\ Memoized(last.w)
    /\ last.outcome = "returned" /\ last.invoked = 0
    /\ last.value = 3

\* The store step of a call whose value the policy rejects: the call returns
\* the computed value and the heap of caches is left as it was.
RejectionPassesThrough ==
    (stack # <<>> /\ Top.pc = "store" /\ Rejects(heap[Top.cache], Top.retval))
        => /\ stack' = Pop
           /\ last'.outcome = "returned"
           /\ last'.value = Top.retval
           /\ last'.store = "rejected"
           /\ heap' = heap /\ registry' = registry

\* The program's next call after its call summarised in last, with the same
\* key on the same instance and method, is at its probe.
NextSameKey ==
    /\ Len(stack) = 1 /\ stack[1].pc = "probe"
    /\ last.depth = 1
    /\ last.o = stack[1].o /\ last.w = stack[1].w /\ last.key = stack[1].key

MissesAndInvokes ==
    /\ Len(stack') = 1
    /\ stack'[1].pc = "body" /\ stack'[1].invoked = 1

\* C3 as stated: a rejected store is transparent (value returned, no raise,
\* resident entries as before the store attempt) and the next call with the
\* same key misses and invokes the underlying method again.
C3_Original ==
    [][/\ RejectionPassesThrough
       /\ (NextSameKey /\ last.store = "rejected") => MissesAndInvokes]_vars

\* C3 amended: the same, the next call missing unless a nested call made by
\* the underlying method during the computation stored that key in the same
\* cache.
C3_RejectionTransparent ==
    [][/\ RejectionPassesThrough
       /\ (NextSameKey /\ last.store = "rejected" /\ ~last.shadowed) => MissesAndInvokes]_vars

\* After a rejected store the next call with the same key has missed and is
\* computing again.
C3_Witness ==
    /\ Len(stack) = 1 /\ stack[1].pc = "body" /\ stack[1].invoked = 1
    /\ last.depth = 1 /\ last.store = "rejected" /\ last.outcome = "returned"
    /\ ~last.shadowed
    /\ last.o = stack[1].o /\ last.w = stack[1].w /\ last.key = stack[1].key

\* C4: per instance and method name at most one cache is ever constructed,
\* and a registry entry, once present, is never replaced or removed by any
\* step of any call (hit, miss, rejected store, failure, nested call).
C4_RegistryUnique ==
    [][/\ \A id \in DOMAIN heap' : id[3] = 1
       /\ \A o \in Instances : \A m \in DOMAIN registry[o].dict :
             /\ m \in DOMAIN registry'[o].dict
             /\ registry'[o].dict[m] = registry[o].dict[m]]_vars

\* A nested call of the method that is being computed has found the entry
\* its caller created.
C4_Witness ==
    /\ Len(stack) = 2
    /\ stack[2].pc = "key"
    /\ stack[2].cache = stack[1].cache
    /\ stack[1].pc = "body"

\* The caches reached through the registry of instance o.
CachesOf(o) == {id \in DOMAIN heap : id[1] = o}

\* C5: a step of a call on one instance leaves the registry and every cache
\* of any other instance unchanged, and the cache a call probes and stores
\* into is one created through its own instance, so a key stored through o1
\* is resident for o2 only if a call on o2 stored it.
C5_InstanceIsolation ==
    [][/\ \A o \in Instances :
             (stack = <<>> \/ Top.o # o)
                => /\ registry'[o] = registry[o]
                   /\ CachesOf(o) \subseteq DOMAIN heap'
                   /\ \A id \in CachesOf(o) : heap'[id] = heap[id]
       /\ \A i \in 1..Len(stack') :
             stack'[i].cache # NoCache => stack'[i].cache[1] = stack'[i].o
       /\ \A o \in Instances : \A m \in DOMAIN registry'[o].dict :
             registry'[o].dict[m][1] = o]_vars

\* A store through o1 has evicted from o1's cache the key that o2's cache of
\* the same method still holds.
C5_Witness ==
    /\ stack = <<>>
    /\ last.o = "o1" /\ last.store = "accepted" /\ last.evicted
    /\ <<"o2", "frob", 1>> \in DOMAIN heap
    /\ \E k \in DOMAIN heap[<<"o2", "frob", 1>>].data :
          k \notin DOMAIN heap[<<"o1", "frob", 1>>].data

\* The caches of instance o other than the one of method name m.
OtherMethodCaches(o, m) == {id \in DOMAIN heap : id[1] = o /\ id[2] # m}

\* C6: a step of a call of method m leaves the cache of every differently
\* named method of the instance unchanged, and the cache the call probes and
\* stores into is the one registered under its own name, so a value stored by
\* m1 under key k is never returned by m2 for the same key.
C6_MethodIsolation ==
    [][/\ stack # <<>> =>
             \A id \in OtherMethodCaches(Top.o, Config[Top.w].mname) :
                 id \in DOMAIN heap' /\ heap'[id] = heap[id]
       /\ \A i \in 1..Len(stack') :
             stack'[i].cache # NoCache => stack'[i].cache[2] = Config[stack'[i].w].mname
       /\ \A o \in Instances : \A m \in DOMAIN registry'[o].dict :
             registry'[o].dict[m][2] = m]_vars

\* spam has missed on o1 with a key that is resident in frob's cache of o1.
C6_Witness ==
    /\ Len(stack) = 1 /\ stack[1].o = "o1" /\ stack[1].w = "spam"
    /\ stack[1].pc = "body"
    /\ <<"o1", "frob", 1>> \in DOMAIN heap
    /\ stack[1].key \in DOMAIN heap[<<"o1", "frob", 1>>].data

\* C7: every method cache holds at most the cachesize configured for its
\* method, in every reachable state (nested calls included).
C7_CapacityBound ==
    \A id \in DOMAIN heap : \A w \in CoreMethods :
        (Memoized(w) /\ Config[w].mname = id[2])
            => Cardinality(DOMAIN heap[id].data) <= Config[w].cachesize

\* A store into a full cache has evicted an entry and the cache is full.
C7_Witness ==
    /\ last.store = "accepted" /\ last.evicted
    /\ last.w = "frob"
    /\ Cardinality(DOMAIN heap[last.cache].data) = Config[last.w].cachesize

\* C8: with cachetype None every call enters the underlying method directly
\* and exactly once, never reads the registry (so it runs the same on an
\* instance without one), and no registry entry is created for the method.
C8_Disabled ==
    /\ \A o \in Instances : \A w \in Wrappers :
          ~Memoized(w) => Config[w].mname \notin DOMAIN registry[o].dict
    /\ \A i \in 1..Len(stack) :
          ~Memoized(stack[i].w) =>
              /\ stack[i].pc = "body" /\ stack[i].invoked = 1
              /\ stack[i].cache = NoCache
    /\ (last.outcome # "none" /\ ~Memoized(last.w)) =>
          /\ last.invoked = 1
          /\ last.cache = NoCache
          /\ last.error \in {"", "body"}

\* A call of the undecorated method has returned on the instance without a
\* registry.
C8_Witness ==
    /\ last.w = "plain" /\ last.o = "o3"
    /\ last.outcome = "returned" /\ last.invoked = 1

\* The step in which the underlying method of the top frame raises: the
\* failure reaches the caller, no store is attempted and every cache and
\* registry is left as it was.
FailurePropagates ==
    (stack # <<>> /\ Top.pc = "body" /\ stack' = Pop /\ last'.outcome = "raised")
        => /\ last'.error = "body"
           /\ last'.store = "none"
           /\ heap' = heap /\ registry' = registry

\* C9 as stated: a failure of the underlying method propagates, nothing is
\* stored, the resident entries are unchanged, and a later call with the same
\* key misses again and re-invokes the method.
C9_Original ==
    [][/\ FailurePropagates
       /\ (NextSameKey /\ last.error = "body") => MissesAndInvokes]_vars

\* C9 amended: the same, the later call missing unless a nested call made by
\* the underlying method before it raised stored that key in the same cache.
C9_FailureNotCached ==
    [][/\ FailurePropagates
       /\ (NextSameKey /\ last.error = "body" /\ ~last.shadowed) => MissesAndInvokes]_vars

\* After a failed computation the next call with the same key has missed and
\* is computing again.
C9_Witness ==
    /\ Len(stack) = 1 /\ stack[1].pc = "body" /\ stack[1].invoked = 1
    /\ last.depth = 1 /\ last.outcome = "raised" /\ last.error = "body"
    /\ ~last.shadowed /\ Memoized(last.w)
    /\ last.o = stack[1].o /\ last.w = stack[1].w /\ last.key = stack[1].key

\* C10: a call of a memoized method on an instance without a registry fails
\* at the registry lookup, before key derivation, without invoking the
\* underlying method and without creating a registry or a cache.
C10_MissingRegistryFatal ==
    [][(stack # <<>> /\ Top.pc = "lookup" /\ ~registry[Top.o].present)
        => /\ stack' = Pop
           /\ last'.outcome = "raised" /\ last'.error = "registry"
           /\ last'.invoked = 0
           /\ last'.key = NoKey
           /\ registry' = registry /\ heap' = heap]_vars

\* A call on the instance without a registry has failed at the lookup.
C10_Witness ==
    /\ last.o = "o3" /\ last.error = "registry" /\ last.outcome = "raised"
    /\ ~registry["o3"].present
    /\ CachesOf("o3") = {}

\* Some cache holds an entry.
SomeResident == \E id \in DOMAIN heap : heap[id].data # EmptyMap

\* The key step of a call whose argument the key function cannot handle.
KeyStepFails ==
    /\ stack # <<>>
    /\ Top.pc = "key"
    /\ ~Top.arg.isarray

\* C11: when the key function fails on the argument, the failure leaves the
\* wrapper call at once: the underlying method has not been invoked, the cache
\* is neither probed nor stored into, and every existing cache keeps its
\* entries (and its bookkeeping) exactly as they were.
C11_KeyFailure ==
    [][KeyStepFails =>
          /\ stack' = Pop
          /\ last'.outcome = "raised"
          /\ last'.error = "key"
          /\ last'.invoked = 0
          /\ last'.store = "none"
          /\ last'.key = NoKey
          /\ heap' = heap
          /\ registry' = registry]_vars

\* A call failed in the key function while a cache held entries.
C11_Witness ==
    /\ last.outcome = "raised"
    /\ last.error = "key"
    /\ last.invoked = 0
    /\ SomeResident

\* The probe step of a top-level call that directly follows a top-level call
\* of the same method on the same instance which stored its result, with an
\* argument of the same key, the key still resident, and other remaining
\* arguments.
ProbeAfterOtherRest ==
    /\ Len(stack) = 1
    /\ Top.pc = "probe"
    /\ last.outcome = "returned"
    /\ last.store = "accepted"
    /\ last.depth = 1
    /\ last.o = Top.o
    /\ last.w = Top.w
    /\ keyfcn_default(Top.arg) = keyfcn_default(last.arg)
    /\ Top.rest # last.rest
    /\ Resident(heap[last.cache], last.key)

\* The probe step of any call that finds its key resident with a value that
\* was computed for other remaining arguments.
ProbeFindsOtherRest ==
    /\ stack # <<>>
    /\ Top.pc = "probe"
    /\ Resident(heap[Top.cache], Top.key)
    /\ origin[Top.cache][Top.key].rest # Top.rest

\* C12: the key is derived from the distinguishing argument alone. A call
\* whose argument has the key of an earlier call's argument, while that key is
\* still resident, returns the value computed for the earlier call's remaining
\* arguments and does not invoke the underlying method, although its own
\* remaining arguments differ.
C12_KeyIgnoresRest ==
    [][/\ ProbeAfterOtherRest =>
            /\ stack' = Pop
            /\ last'.outcome = "returned"
            /\ last'.value = last.value
            /\ last'.invoked = 0
       /\ ProbeFindsOtherRest =>
            /\ stack' = Pop
            /\ last'.outcome = "returned"
            /\ last'.value = origin[Top.cache][Top.key].value
            /\ last'.invoked = 0]_vars

\* A call with remaining arguments r2 returned, without invoking the method,
\* the value stored by a call with remaining arguments r1.
C12_Witness ==
    /\ last.outcome = "returned"
    /\ last.invoked = 0
    /\ last.store = "none"
    /\ last.rest = "r2"
    /\ last.arg.ident = "x2"
    /\ Resident(heap[last.cache], last.key)
    /\ origin[last.cache][last.key].rest = "r1"
    /\ origin[last.cache][last.key].value = last.value

\* The cache was constructed with the configuration of wrapper w.
BuiltFor(c, w) ==
    /\ c.kind = Construct(w).kind
    /\ c.maxsize = Construct(w).maxsize
    /\ c.sized = Construct(w).sized

\* C13: the cache a wrapper probes and stores into on any call was constructed
\* with that wrapper's own cache type, cachesize and extra parameters, also
\* when two decorated methods carry the same name.
C13_ConfigFixity ==
    \A i \in 1..Len(stack) :
        stack[i].cache # NoCache => BuiltFor(heap[stack[i].cache], stack[i].w)

\* Whether each call of the script invokes the underlying method: the first
\* frob(A), frob(B), frob(C) and the last frob(A) do, the second frob(A) hits.
ScriptInvokes == <<1, 0, 1, 1, 1>>

\* The k-th call of the script has completed.
ScriptDone(k) == stack = <<>> /\ calls = k

FrobCache == heap[<<"o1", "frob", 1>>]

KeyNamed(ident) == keyfcn_default(ArrayNamed(ident))

\* C14: with an LRU cache of capacity 2, frob(A), frob(A), frob(B), frob(C)
\* invokes the underlying method in the first, third and fourth call only
\* (3 times) and leaves exactly the entries of B and C resident; the following
\* frob(A) misses, invokes the method a fourth time and stores A again.
C14_EvictionScenario ==
    /\ \A k \in 1..Len(Script) : ScriptDone(k) => last.invoked = ScriptInvokes[k]
    /\ ScriptDone(4) => DOMAIN FrobCache.data = {KeyNamed("y"), KeyNamed("u")}
    /\ ScriptDone(5) =>
          /\ last.store = "accepted"
          /\ Resident(FrobCache, KeyNamed("x1"))
          /\ FrobCache.data[KeyNamed("x1")] = last.value
          /\ Cardinality(DOMAIN FrobCache.data) = 2

\* The fifth call has recomputed and stored A, evicting an entry.
C14_Witness ==
    /\ ScriptDone(5)
    /\ last.invoked = 1
    /\ last.evicted
    /\ Resident(FrobCache, KeyNamed("x1"))

\* The steps of a wrapper call, each with the step that may follow it within
\* the call.
StepOrder == {<<"lookup", "key">>, <<"key", "probe">>,
              <<"probe", "body">>, <<"body", "store">>}

\* Frame i belongs to a memoized method and is still running after the step.
Continues(i) == i <= Len(stack) /\ i <= Len(stack') /\ Memoized(stack[i].w)

\* The step ends the running call of a memoized method.
Leaves == stack # <<>> /\ Len(stack') < Len(stack) /\ Memoized(Top.w)

\* C15: every wrapper call goes through registry lookup, key derivation and
\* cache probe in this order, and after a miss through the computation and
\* then one store attempt; it never returns to an earlier step, invokes the
\* underlying method at most once (on leaving the probe with a miss), and
\* attempts the store only once, after a miss and a computation that returned.
C15_StepOrder ==
    [][/\ \A i \in 1..Len(stack) : Continues(i) =>
              /\ stack'[i].pc = stack[i].pc \/ <<stack[i].pc, stack'[i].pc>> \in StepOrder
              /\ stack'[i].invoked >= stack[i].invoked
              /\ stack'[i].invoked <= 1
              /\ stack'[i].invoked # stack[i].invoked =>
                     stack[i].pc = "probe" /\ stack'[i].pc = "body"
              /\ stack'[i].pc = "store" =>
                     stack'[i].invoked = 1 /\ stack'[i].retval \in Values
       /\ Len(stack') > Len(stack) /\ Memoized(stack'[Len(stack')].w) =>
              stack'[Len(stack')].pc = "lookup" /\ stack'[Len(stack')].invoked = 0
       /\ Leaves =>
              /\ last'.outcome = "returned" => Top.pc \in {"probe", "store"}
              /\ (last'.store # "none") <=> (Top.pc = "store")
              /\ Top.pc = "store" => Top.invoked = 1 /\ last'.invoked = 1]_vars

\* A call went through all five steps: it missed, invoked the method once and
\* ended with its store attempt.
C15_Witness ==
    /\ last.outcome = "returned"
    /\ last.invoked = 1
    /\ last.store = "rejected"
    /\ Memoized(last.w)

\* The running call is at its store attempt on cache id, after a miss.
StoringInto(id) ==
    /\ stack # <<>>
    /\ Top.pc = "store"
    /\ Top.cache = id
    /\ Top.invoked = 1

\* The running call's probe finds its key resident.
ProbeStepHits ==
    /\ stack # <<>>
    /\ Top.pc = "probe"
    /\ Resident(heap[Top.cache], Top.key)

\* C16: the resident keys and values of a cache change only in the store
\* attempt of a call that missed on that cache; a hit leaves the keys and
\* values of every cache as they were (the policy's bookkeeping may change),
\* no cache is dropped, and a new cache starts empty.
C16_NoRemoval ==
    [][/\ \A id \in DOMAIN heap :
              /\ id \in DOMAIN heap'
              /\ heap'[id].data # heap[id].data => StoringInto(id)
       /\ \A id \in DOMAIN heap' \ DOMAIN heap : heap'[id].data = EmptyMap
       /\ ProbeStepHits => \A id \in DOMAIN heap : heap'[id].data = heap[id].data]_vars

\* A call hit on a cache holding two entries, which are both still resident
\* after it with the hit key's bookkeeping updated.
C16_Witness ==
    /\ last.outcome = "returned"
    /\ last.invoked = 0
    /\ last.cache # NoCache
    /\ Cardinality(DOMAIN heap[last.cache].data) = 2
    /\ Resident(heap[last.cache], last.key)
    /\ heap[last.cache].kind = "LRU"
    /\ heap[last.cache].order[1] # last.key

\* The registry of instance o has an entry for method name m.
HasEntry(reg, o, m) == reg[o].present /\ m \in DOMAIN reg[o].dict

\* The running call is a started wrapper call of the memoized method named m
\* on instance o, at its registry lookup.
LookupOf(o, m) ==
    /\ stack # <<>>
    /\ Top.pc = "lookup"
    /\ Top.o = o
    /\ Memoized(Top.w)
    /\ Config[Top.w].mname = m

\* C17: the registry of an instance is empty right after construction, and an
\* entry for method m appears in it only in the registry lookup of a wrapper
\* call of m started on that same instance: calling one memoized method never
\* creates the entry of another one unless that one is itself called.
C17_LazyCreation ==
    /\ \A o \in Initialised : registry[o] = [present |-> TRUE, dict |-> EmptyMap]
    /\ [][\A o \in Instances : \A m \in MethodNames :
              HasEntry(registry', o, m) /\ ~HasEntry(registry, o, m) => LookupOf(o, m)]_vars

\* spam has been called and has called frob: both entries exist, each made in
\* its own call, after a state with spam's entry alone.
C17_Witness ==
    /\ Len(stack) = 2
    /\ stack[1].w = "spam"
    /\ stack[2].w = "frob"
    /\ stack[2].created
    /\ stack[1].created
    /\ HasEntry(registry, "o1", "frob")
    /\ HasEntry(registry, "o1", "spam")

\* The entry of key k in cache id has a recorded storing call.
Recorded(id, k) == id \in DOMAIN origin /\ k \in DOMAIN origin[id]

\* C18: every resident entry (k, v) of the cache of instance o and method m
\* was stored by a call of m on o whose argument has key k and whose
\* underlying method returned v; no entry comes from a computation that
\* failed, from another instance or from another method.
C18_Coherence ==
    \A id \in DOMAIN heap : \A k \in DOMAIN heap[id].data :
        /\ Recorded(id, k)
        /\ origin[id][k].o = id[1]
        /\ Config[origin[id][k].w].mname = id[2]
        /\ origin[id][k].key = k
        /\ origin[id][k].value = heap[id].data[k]
        /\ origin[id][k].value \in Values

\* Both caches hold an entry for the same key, each stored by a call of its
\* own method, after a call whose computation failed.
C18_Witness ==
    /\ last.outcome = "raised"
    /\ last.error = "body"
    /\ {<<"o1", "frob", 1>>, <<"o1", "spam", 1>>} \subseteq DOMAIN heap
    /\ \E k \in Keys :
          /\ Resident(heap[<<"o1", "frob", 1>>], k)
          /\ Resident(heap[<<"o1", "spam", 1>>], k)
          /\ origin[<<"o1", "frob", 1>>][k].w = "frob"
          /\ origin[<<"o1", "spam", 1>>][k].w = "spam"

\* The store attempt of the running call, with a value the policy accepts.
StoreStepAccepted ==
    /\ stack # <<>>
    /\ Top.pc = "store"
    /\ ~Rejects(heap[Top.cache], Top.retval)

\* C19: after a miss, when the policy accepts the store, the call returns the
\* computed value and right after it the key is resident with exactly that
\* value, also when the cache was full: eviction never removes the entry that
\* is being inserted.
C19_StoreResident ==
    [][StoreStepAccepted =>
          /\ Len(stack') = Len(stack) - 1
          /\ last'.outcome = "returned"
          /\ last'.store = "accepted"
          /\ last'.value = Top.retval
          /\ Resident(heap'[Top.cache], Top.key)
          /\ heap'[Top.cache].data[Top.key] = Top.retval]_vars

\* A store into a full cache evicted an entry and left the stored key
\* resident with the returned value.
C19_Witness ==
    /\ last.outcome = "returned"
    /\ last.store = "accepted"
    /\ last.evicted
    /\ Resident(heap[last.cache], last.key)
    /\ heap[last.cache].data[last.key] = last.value

\* The most recently completed call was the first call of its method on its
\* instance (it created the registry entry) and failed in the key function or
\* in the underlying method.
FirstCallFailed ==
    /\ last.outcome = "raised"
    /\ last.error \in {"key", "body"}
    /\ last.created

\* The registry of the failed call's instance has the entry the call created,
\* and every running call of that method on that instance uses that cache.
EntrySurvives ==
    /\ HasEntry(registry, last.o, Config[last.w].mname)
    /\ registry[last.o].dict[Config[last.w].mname] = last.cache
    /\ \A i \in 1..Len(stack) :
          /\ stack[i].o = last.o
          /\ Config[stack[i].w].mname = Config[last.w].mname
          /\ stack[i].cache # NoCache
          => stack[i].cache = last.cache

\* C20 as stated: a first call of m that fails in the key function or in the
\* underlying method leaves a registry entry for m holding an empty cache,
\* which is the cache later calls of m on the instance use.
C20_Original ==
    FirstCallFailed => EntrySurvives /\ heap[last.cache].data = EmptyMap

\* C20, amended: a first call of m that fails in the key function or in the
\* underlying method leaves a registry entry for m with the cache it created,
\* which is the cache later calls of m on the instance use; the cache is empty
\* unless a nested call made by the underlying method before it failed stored
\* into it.
C20_EntrySurvives ==
    FirstCallFailed =>
        /\ EntrySurvives
        /\ ~last.dirtied => heap[last.cache].data = EmptyMap

\* After a first call that failed in the underlying method, a later call of
\* the method runs on the cache the failed call created, still empty.
C20_Witness ==
    /\ FirstCallFailed
    /\ last.error = "body"
    /\ stack # <<>>
    /\ Top.o = last.o
    /\ Top.w = last.w
    /\ Top.pc = "probe"
    /\ ~Top.created
    /\ Top.cache = last.cache
    /\ heap[last.cache].data = EmptyMap


====
